---- MODULE Spec2Model ----
(***************************************************************************)
(* Authentication flow of the insurance-management-system API:             *)
(* registration, login, the protect middleware, the /me handler, the User  *)
(* model's pre-save hook and comparePassword, and the validation chains of *)
(* the auth routes.  Every await in a handler is a separate step, so that  *)
(* handlers of concurrent requests and updates of the store interleave at  *)
(* the store accesses.  A slot holds one handler chain; when its response  *)
(* is sent the record stays in the slot (pc = "done") until the slot takes *)
(* its next request.                                                       *)
(***************************************************************************)
EXTENDS Integers, FiniteSets, Sequences, TLC

\* ------------------------------------------------------------------ bounds
MaxUsers  == 2      \* user records ever created
MaxTime   == 2      \* clock ticks
MaxTokens == 2      \* tokens ever issued
MaxLayers == 2      \* nesting depth of bcrypt digests
YearLen   == 2      \* clock ticks per calendar year
BaseYear  == 2026   \* calendar year of clock value 0

\* ------------------------------------------------------- program constants
TTL    == 1         \* JWT_EXPIRE, in clock ticks
MinAge == 18

Ids   == 1 .. MaxUsers
NoId  == 0

\* --------------------------------------------------------------- messages
MsgNoToken      == "Not authorized, no token provided"
MsgInvalidToken == "Invalid token"
MsgExpired      == "Token expired, please login again"
MsgUserNotFound == "User not found"
MsgDeactivated  == "Account is deactivated"
MsgAuthError    == "Server error in authentication"
MsgExists       == "User already exists with this email"
MsgRegistered   == "User registered successfully"
MsgRegError     == "Server error during registration"
MsgBadLogin     == "Invalid email or password"
MsgLoginOff     == "Account is deactivated. Please contact support."
MsgLoginOk      == "Login successful"
MsgLoginError   == "Server error during login"
MsgServerError  == "Server error"
MsgNone         == ""

\* ----------------------------------------------------------------- emails
\* An address is the local part "ab" or "a.b" at a gmail or a non-gmail
\* domain, written in lower or in upper case; valid = FALSE is a string
\* that is empty or fails isEmail().
\* ab@ex.com, AB@EX.com, ab@gmail.com, a.b@gmail.com
Emails  == {[valid |-> TRUE, upper |-> FALSE, dots |-> FALSE, gmail |-> FALSE],
            [valid |-> TRUE, upper |-> TRUE,  dots |-> FALSE, gmail |-> FALSE],
            [valid |-> TRUE, upper |-> FALSE, dots |-> FALSE, gmail |-> TRUE],
            [valid |-> TRUE, upper |-> FALSE, dots |-> TRUE,  gmail |-> TRUE]}
BadEmail == [valid |-> FALSE, upper |-> FALSE, dots |-> FALSE, gmail |-> FALSE]

\* validator's normalizeEmail() with its defaults: lower-cases the address
\* and removes the dots of a gmail local part.
NormalizeEmail(e) ==
    IF ~e.valid THEN e
    ELSE [e EXCEPT !.upper = FALSE, !.dots = IF e.gmail THEN FALSE ELSE e.dots]

\* The schema's lowercase: true setter, run on stored values and on the
\* values of a query filter.
LowercaseSetter(e) == [e EXCEPT !.upper = FALSE]

\* -------------------------------------------------------------- passwords
\* .isLength({min: 6}) and .matches(/^(?=.*[a-z])(?=.*[A-Z])(?=.*\d)/)
PasswordStrong(p) == p \in {"Abcdef1", "Zyxwvu9"}

\* A password field holds a plaintext (layers = 0) or a bcrypt digest of it;
\* layers counts how many times bcrypt.hash was applied.
Plain(p)    == [plain |-> p, layers |-> 0]
NoDigest    == [plain |-> "", layers |-> 0]
BcryptHash(f) == [plain |-> f.plain, layers |-> f.layers + 1]
\* bcrypt.compare(entered, stored): true only for a digest of entered itself
BcryptCompare(entered, f) == f.layers = 1 /\ f.plain = entered

\* ------------------------------------------------------------------ dates
DateOf(t) == [y |-> BaseYear + (t \div YearLen), d |-> t % YearLen]
BirthDates == [valid : {TRUE}, y : (BaseYear - MinAge) .. (BaseYear - MinAge + 1),
               d : 0 .. (YearLen - 1)]
BadDate == [valid |-> FALSE, y |-> 0, d |-> 0]

\* the custom validator of body('dateOfBirth')
AgeValidator(dob, t) == DateOf(t).y - dob.y >= MinAge

\* ------------------------------------------------------------------ roles
Roles  == {"customer", "agent", "admin"}
NoRole == "undefined"

\* ----------------------------------------------------------------- tokens
NoToken   == [sig |-> "none", id |-> NoId, iat |-> 0, exp |-> 0]
Malformed == [sig |-> "malformed", id |-> NoId, iat |-> 0, exp |-> 0]
Forged    == [sig : {"bad"}, id : {1}, iat : {0}, exp : {0, MaxTime + 1}]

\* jwt.sign({id}, JWT_SECRET, {expiresIn: JWT_EXPIRE})
generateToken(userId, t) ==
    [sig |-> "good", id |-> userId, iat |-> t, exp |-> t + TTL]

\* a verify that looks at the expiry before the signature
JwtVerifyExpiryFirst(tok, t) ==
    IF tok.sig = "malformed" THEN "JsonWebTokenError"
    ELSE IF t >= tok.exp THEN "TokenExpiredError"
    ELSE IF tok.sig # "good" THEN "JsonWebTokenError"
    ELSE "ok"

\* a verify with ignoreExpiration
JwtVerifyNoExpiry(tok, t) ==
    IF tok.sig # "good" THEN "JsonWebTokenError" ELSE "ok"

\* jwt.verify(token, JWT_SECRET): parse, then signature, then expiry
JwtVerify(tok, t) ==
    IF tok.sig = "malformed" THEN "JsonWebTokenError"
    ELSE IF tok.sig # "good" THEN "JsonWebTokenError"
    ELSE IF t >= tok.exp THEN "TokenExpiredError"
    ELSE "ok"

\* ------------------------------------------------------------------ state
VARIABLES users, nextId, issued, now, reqs

vars == <<users, nextId, issued, now, reqs>>

NoUser == [present |-> FALSE, email |-> BadEmail, password |-> NoDigest,
           isActive |-> FALSE, role |-> NoRole, regRaw |-> BadEmail]

NoDate == [y |-> 0, d |-> 0]

\* A request: what the client sent (raw, password, dob, role, profileOk,
\* tok), what the chain holds (email = req.body.email after the sanitizers,
\* uid, snap, reqUser), what was answered (mwStatus/mwMsg by protect,
\* status/msg/errors/token/userId by a handler, nextCalled) and what the
\* store showed when the chain read it (looked, existed, activeAt, pwMatch,
\* deactAtEntry), when the chain ran (today, vt) and what it did (fault,
\* compared, created); reqRole is req.user.role, azRoles the roles bound by
\* authorize(...roles), azStatus/azMsg/azNext what authorize did.
IdleReq == [kind |-> "idle", pc |-> "idle", today |-> NoDate, vt |-> 0,
            raw |-> BadEmail, email |-> BadEmail, password |-> "",
            role |-> NoRole, dob |-> BadDate, profileOk |-> FALSE,
            tok |-> NoToken, uid |-> NoId, snap |-> NoDigest,
            mwStatus |-> 0, mwMsg |-> MsgNone, nextCalled |-> FALSE,
            reqUser |-> NoId,
            status |-> 0, msg |-> MsgNone, errors |-> {}, token |-> NoToken,
            userId |-> NoId,
            fault |-> FALSE, looked |-> FALSE, existed |-> FALSE,
            activeAt |-> FALSE, pwMatch |-> FALSE, compared |-> FALSE,
            created |-> NoId, deactAtEntry |-> FALSE,
            reqRole |-> NoRole, azRoles |-> {}, azDone |-> FALSE,
            azStatus |-> 0, azMsg |-> <<>>, azNext |-> FALSE]

InitStore ==
    /\ users = [i \in Ids |-> NoUser]
    /\ nextId = 1
    /\ issued = {}
    /\ now = 0

\* one handler chain at a time, interleaved with the updates of the store
Init == InitStore /\ reqs = [s \in {"h1"} |-> IdleReq]

\* two handler chains interleaved
InitRace == InitStore /\ reqs = [s \in {"h1", "h2"} |-> IdleReq]

Slots == DOMAIN reqs

Free(s) == reqs[s].pc \in {"idle", "done"}

\* The response is sent: the handler chain of slot s ends with record r.
Finish(s, r) == reqs' = [reqs EXCEPT ![s] = [r EXCEPT !.pc = "done"]]

Goto(s, r, pc) == reqs' = [reqs EXCEPT ![s] = [r EXCEPT !.pc = pc]]

Busy(kinds) ==
    Cardinality({s \in Slots : ~Free(s) /\ reqs[s].kind \in kinds})

\* ------------------------------------------------------------- the store
\* a lookup that skips the accounts that are not active
FindOneActiveByEmail(us, e) ==
    LET m == {i \in Ids : us[i].present /\ us[i].isActive
                          /\ us[i].email = LowercaseSetter(e)}
    IN IF m = {} THEN NoId ELSE CHOOSE i \in m : \A j \in m : i <= j

\* User.findOne({email}): the filter is cast through the schema's setters
FindOneByEmail(us, e) ==
    LET m == {i \in Ids : us[i].present /\ us[i].email = LowercaseSetter(e)}
    IN IF m = {} THEN NoId ELSE CHOOSE i \in m : \A j \in m : i <= j

\* User.findById(id)
FindById(us, id) ==
    IF id \in Ids /\ us[id].present THEN id ELSE NoId

\* a collection without the index
NoUniqueIndex(us, e) == TRUE

\* the unique index on email (unique: true)
UniqueIndexAllows(us, e) ==
    \A i \in Ids : ~(us[i].present /\ us[i].email = e)

\* userSchema.pre('save'): the values the password field can be persisted
\* with.  When the password was not modified the hook calls next() and then
\* goes on to hash this.password all the same, while the save that next()
\* released runs concurrently: the save persists the old or the rehashed
\* value.
PreSave(f, modified) ==
    IF modified THEN {BcryptHash(f)} ELSE {f, BcryptHash(f)}

\* userSchema.methods.comparePassword
comparePassword(doc, enteredPassword) == BcryptCompare(enteredPassword, doc)

\* ------------------------------------------------------------ validation
RegisterErrors(in, t) ==
       (IF in.profileOk THEN {} ELSE {"profile"})
    \cup (IF in.email.valid THEN {} ELSE {"email"})
    \cup (IF PasswordStrong(in.password) THEN {} ELSE {"password"})
    \cup (IF in.dob.valid /\ AgeValidator(in.dob, t) THEN {} ELSE {"dateOfBirth"})
    \cup (IF in.role \in Roles \cup {NoRole} THEN {} ELSE {"role"})

LoginErrors(in) ==
       (IF in.email.valid THEN {} ELSE {"email"})
    \cup (IF in.password # "" THEN {} ELSE {"password"})

\* a handler that goes on whatever validationResult holds
ValidationIgnored(errs) == FALSE

\* const errors = validationResult(req); if (!errors.isEmpty()) return 400
ValidationFailed(errs) == errs # {}

\* ------------------------------------------------------------- register
\* registerValidation, then registerUser up to its first await
RegisterStart(s, in) ==
    /\ Free(s)
    /\ nextId + Busy({"register"}) <= MaxUsers
    /\ Cardinality(issued) + Busy({"register", "login"}) < MaxTokens
    /\ LET errs == RegisterErrors(in, now)
           r    == [IdleReq EXCEPT !.kind = "register", !.today = DateOf(now),
                      !.raw = in.email, !.email = NormalizeEmail(in.email),
                      !.password = in.password, !.role = in.role,
                      !.dob = in.dob, !.profileOk = in.profileOk,
                      !.errors = errs]
       IN IF ValidationFailed(errs)
          THEN Finish(s, [r EXCEPT !.status = 400])
          ELSE Goto(s, r, "lookup")
    /\ UNCHANGED <<users, nextId, issued, now>>

\* const userExists = await User.findOne({ email })
RegisterLookup(s) ==
    /\ reqs[s].kind = "register" /\ reqs[s].pc = "lookup"
    /\ \E fault \in BOOLEAN :
         LET r  == reqs[s]
             id == FindOneByEmail(users, r.email)
             h  == [r EXCEPT !.looked = TRUE,
                      !.existed = \E i \in Ids : users[i].present /\
                                                 users[i].email = r.email]
         IN IF fault
            THEN Finish(s, [r EXCEPT !.fault = TRUE, !.status = 500,
                                     !.msg = MsgRegError])
            ELSE IF id # NoId
            THEN Finish(s, [h EXCEPT !.uid = id, !.status = 400,
                                     !.msg = MsgExists])
            ELSE Goto(s, h, "create")
    /\ UNCHANGED <<users, nextId, issued, now>>

\* const user = await User.create({...}); generateToken(user._id); 201
RegisterCreate(s) ==
    /\ reqs[s].kind = "register" /\ reqs[s].pc = "create"
    /\ \E fault \in BOOLEAN :
         LET r     == reqs[s]
             email == LowercaseSetter(r.email)
             tok   == generateToken(nextId, now)
         IN IF fault \/ ~UniqueIndexAllows(users, email)
            THEN /\ Finish(s, [r EXCEPT !.fault = fault, !.status = 500,
                                        !.msg = MsgRegError])
                 /\ UNCHANGED <<users, nextId, issued>>
            ELSE \E pw \in PreSave(Plain(r.password), TRUE) :
                 /\ users' = [users EXCEPT ![nextId] =
                       [present |-> TRUE, email |-> email, password |-> pw,
                        isActive |-> TRUE,
                        role |-> IF r.role = NoRole THEN "customer" ELSE r.role,
                        regRaw |-> r.raw]]
                 /\ nextId' = nextId + 1
                 /\ issued' = issued \cup {tok}
                 /\ Finish(s, [r EXCEPT !.status = 201, !.msg = MsgRegistered,
                                        !.token = tok, !.userId = nextId,
                                        !.created = nextId])
    /\ UNCHANGED now

\* ---------------------------------------------------------------- login
\* loginValidation, then loginUser up to its first await
LoginStart(s, in) ==
    /\ Free(s)
    /\ Cardinality(issued) + Busy({"register", "login"}) < MaxTokens
    /\ LET errs == LoginErrors(in)
           r    == [IdleReq EXCEPT !.kind = "login", !.raw = in.email,
                      !.email = in.email, !.password = in.password,
                      !.errors = errs]
       IN IF ValidationFailed(errs)
          THEN Finish(s, [r EXCEPT !.status = 400])
          ELSE Goto(s, r, "lookup")
    /\ UNCHANGED <<users, nextId, issued, now>>

\* a login that tells an unknown email from a wrong password
LoginCheckLeaky(us, id) ==
    IF id = NoId THEN MsgUserNotFound
    ELSE IF ~us[id].isActive THEN MsgLoginOff
    ELSE "compare"

\* a login without its isActive check
LoginCheckNoActive(us, id) ==
    IF id = NoId THEN MsgBadLogin ELSE "compare"

\* loginUser's checks on the result of the lookup: if (!user) 401,
\* if (!user.isActive) 401, else go on to the password
LoginCheck(us, id) ==
    IF id = NoId THEN MsgBadLogin
    ELSE IF ~us[id].isActive THEN MsgLoginOff
    ELSE "compare"

\* const user = await User.findOne({ email }).select('+password')
LoginLookup(s) ==
    /\ reqs[s].kind = "login" /\ reqs[s].pc = "lookup"
    /\ \E fault \in BOOLEAN :
         LET r  == reqs[s]
             id == FindOneByEmail(users, r.email)
             m  == {i \in Ids : users[i].present /\
                        users[i].email = [r.email EXCEPT !.upper = FALSE]}
             h  == [r EXCEPT !.looked = TRUE, !.uid = id,
                      !.existed = (m # {}),
                      !.activeAt = (\E i \in m : users[i].isActive),
                      !.pwMatch = (\E i \in m : users[i].password =
                                      [plain |-> r.password, layers |-> 1])]
         IN IF fault
            THEN Finish(s, [r EXCEPT !.fault = TRUE, !.status = 500,
                                     !.msg = MsgLoginError])
            ELSE IF LoginCheck(users, id) # "compare"
            THEN Finish(s, [h EXCEPT !.status = 401,
                                     !.msg = LoginCheck(users, id)])
            ELSE Goto(s, [h EXCEPT !.snap = users[id].password], "compare")
    /\ UNCHANGED <<users, nextId, issued, now>>

\* await user.comparePassword(password); generateToken(user._id); 200
LoginCompare(s) ==
    /\ reqs[s].kind = "login" /\ reqs[s].pc = "compare"
    /\ \E fault \in BOOLEAN :
         LET r   == reqs[s]
             tok == generateToken(r.uid, now)
         IN IF fault
            THEN /\ Finish(s, [r EXCEPT !.fault = TRUE, !.status = 500,
                                        !.msg = MsgLoginError])
                 /\ UNCHANGED issued
            ELSE IF ~comparePassword(r.snap, r.password)
            THEN /\ Finish(s, [r EXCEPT !.compared = TRUE, !.status = 401,
                                        !.msg = MsgBadLogin])
                 /\ UNCHANGED issued
            ELSE /\ issued' = issued \cup {tok}
                 /\ Finish(s, [r EXCEPT !.compared = TRUE, !.status = 200,
                                        !.msg = MsgLoginOk, !.token = tok,
                                        !.userId = r.uid])
    /\ UNCHANGED <<users, nextId, now>>

\* -------------------------------------------------------------- protect
\* the synchronous part of protect: the Authorization header, jwt.verify
ProtectStart(s, tok) ==
    /\ Free(s)
    /\ LET v == JwtVerify(tok, now)
           r == [IdleReq EXCEPT !.kind = "protect", !.vt = now, !.tok = tok,
                   !.deactAtEntry = (tok.id \in Ids /\ users[tok.id].present
                                     /\ ~users[tok.id].isActive)]
       IN IF tok.sig = "none"
          THEN Finish(s, [r EXCEPT !.mwStatus = 401, !.mwMsg = MsgNoToken])
          ELSE IF v = "JsonWebTokenError"
          THEN Finish(s, [r EXCEPT !.mwStatus = 401, !.mwMsg = MsgInvalidToken])
          ELSE IF v = "TokenExpiredError"
          THEN Finish(s, [r EXCEPT !.mwStatus = 401, !.mwMsg = MsgExpired])
          ELSE Goto(s, [r EXCEPT !.uid = tok.id], "lookup")
    /\ UNCHANGED <<users, nextId, issued, now>>

\* protect without its isActive check
ProtectCheckNoActive(us, id) ==
    IF id = NoId THEN MsgUserNotFound ELSE "next"

\* protect's checks on the result of the lookup: if (!user) 401,
\* if (!user.isActive) 401, else req.user = user and next()
ProtectCheck(us, id) ==
    IF id = NoId THEN MsgUserNotFound
    ELSE IF ~us[id].isActive THEN MsgDeactivated
    ELSE "next"

\* const user = await User.findById(decoded.id); req.user = user; next()
ProtectLookup(s) ==
    /\ reqs[s].kind = "protect" /\ reqs[s].pc = "lookup"
    /\ \E fault \in BOOLEAN :
         LET r  == reqs[s]
             id == FindById(users, r.uid)
             c  == ProtectCheck(users, id)
             h  == [r EXCEPT !.looked = TRUE,
                      !.existed = users[r.uid].present,
                      !.activeAt = (users[r.uid].present /\ users[r.uid].isActive)]
         IN IF fault
            THEN Finish(s, [r EXCEPT !.fault = TRUE, !.mwStatus = 500,
                                     !.mwMsg = MsgAuthError])
            ELSE IF c # "next"
            THEN Finish(s, [h EXCEPT !.mwStatus = 401, !.mwMsg = c])
            ELSE Goto(s, [h EXCEPT !.reqUser = id, !.reqRole = users[id].role,
                                    !.nextCalled = TRUE], "handler")
    /\ UNCHANGED <<users, nextId, issued, now>>

\* ------------------------------------------------------------ authorize
\* `User role '${req.user.role}' is not authorized to access this route`
ForbiddenMsg(role) ==
    <<"User role '", role, "' is not authorized to access this route">>

\* an authorize that lets every admin through
authorizeAdminAlways(roles, role) ==
    IF role \notin roles /\ role # "admin"
    THEN [status |-> 403, msg |-> ForbiddenMsg(role), next |-> FALSE]
    ELSE [status |-> 0, msg |-> <<>>, next |-> TRUE]

\* authorize(...roles)(req, res, next) with role = req.user.role
authorize(roles, role) ==
    IF role \notin roles
    THEN [status |-> 403, msg |-> ForbiddenMsg(role), next |-> FALSE]
    ELSE [status |-> 0, msg |-> <<>>, next |-> TRUE]

\* the middleware authorize(...roles) of a route, run after protect has
\* called next(); the handler behind it is not part of the step
Authorize(s, roles) ==
    /\ reqs[s].kind = "protect" /\ reqs[s].pc = "handler"
    /\ LET r == reqs[s]
           o == authorize(roles, r.reqRole)
       IN Finish(s, [r EXCEPT !.azRoles = roles, !.azDone = TRUE,
                              !.azStatus = o.status, !.azMsg = o.msg,
                              !.azNext = o.next])
    /\ UNCHANGED <<users, nextId, issued, now>>

\* getMe: const user = await User.findById(req.user.id)
GetMe(s) ==
    /\ reqs[s].kind = "protect" /\ reqs[s].pc = "handler"
    /\ \E fault \in BOOLEAN :
         LET r  == reqs[s]
             id == FindById(users, r.reqUser)
         IN IF fault
            THEN Finish(s, [r EXCEPT !.status = 500, !.msg = MsgServerError])
            ELSE IF id = NoId
            THEN Finish(s, [r EXCEPT !.status = 404, !.msg = MsgUserNotFound])
            ELSE Finish(s, [r EXCEPT !.status = 200, !.userId = id])
    /\ UNCHANGED <<users, nextId, issued, now>>

\* ---------------------------------------------- out-of-band store updates
\* isActive set to false by an update that does not run the save hooks
Deactivate(id) ==
    /\ users[id].present /\ users[id].isActive
    /\ users' = [users EXCEPT ![id].isActive = FALSE]
    /\ UNCHANGED <<nextId, issued, now, reqs>>

\* a record removed from the collection
DeleteUser(id) ==
    /\ users[id].present
    /\ users' = [users EXCEPT ![id] = NoUser]
    /\ UNCHANGED <<nextId, issued, now, reqs>>

\* doc.save() of a stored record whose password path is not modified
SaveUser(id) ==
    /\ users[id].present
    /\ users[id].password.layers < MaxLayers
    /\ \E pw \in PreSave(users[id].password, FALSE) :
         users' = [users EXCEPT ![id].password = pw]
    /\ UNCHANGED <<nextId, issued, now, reqs>>

Tick ==
    /\ now < MaxTime
    /\ now' = now + 1
    /\ UNCHANGED <<users, nextId, issued, reqs>>

\* ---------------------------------------------------------------- inputs
Adult == [valid |-> TRUE, y |-> BaseYear - MinAge - 1, d |-> 0]

RegInputs ==
    [email : Emails \cup {BadEmail}, password : {"Abcdef1", "weak"},
     dob : {Adult}, role : {NoRole}, profileOk : {TRUE}]

LoginInputs ==
    [email : Emails \cup {BadEmail}, password : {"Abcdef1", "Zyxwvu9", ""}]

Headers == {NoToken, Malformed} \cup Forged \cup issued

\* --------------------------------------------------------- specifications
Next ==
    \/ \E s \in Slots, in \in RegInputs : RegisterStart(s, in)
    \/ \E s \in Slots : RegisterLookup(s)
    \/ \E s \in Slots : RegisterCreate(s)
    \/ \E s \in Slots, in \in LoginInputs : LoginStart(s, in)
    \/ \E s \in Slots : LoginLookup(s)
    \/ \E s \in Slots : LoginCompare(s)
    \/ \E s \in Slots, tok \in Headers : ProtectStart(s, tok)
    \/ \E s \in Slots : ProtectLookup(s)
    \/ \E s \in Slots : GetMe(s)
    \/ \E id \in Ids : Deactivate(id)
    \/ \E id \in Ids : DeleteUser(id)
    \/ Tick

Spec == Init /\ [][Next]_vars

\* Registrations and logins with one address, and saves of the stored
\* records that leave the password field alone.
OneEmail == {e \in Emails : ~e.gmail /\ ~e.upper}

SaveRegInputs ==
    [email : OneEmail, password : {"Abcdef1"}, dob : {Adult},
     role : {NoRole}, profileOk : {TRUE}]

SaveLoginInputs == [email : OneEmail, password : {"Abcdef1", "Zyxwvu9"}]

NextSave ==
    \/ \E s \in Slots, in \in SaveRegInputs : RegisterStart(s, in)
    \/ \E s \in Slots : RegisterLookup(s)
    \/ \E s \in Slots : RegisterCreate(s)
    \/ \E s \in Slots, in \in SaveLoginInputs : LoginStart(s, in)
    \/ \E s \in Slots : LoginLookup(s)
    \/ \E s \in Slots : LoginCompare(s)
    \/ \E id \in Ids : SaveUser(id)
    \/ \E id \in Ids : DeleteUser(id)
    \/ Tick

SpecSave == Init /\ [][NextSave]_vars

\* Two handler chains that register and log in with one address, written
\* in lower or in upper case.
RaceEmails == {e \in Emails : ~e.gmail}

RaceRegInputs ==
    [email : RaceEmails, password : {"Abcdef1"}, dob : {Adult},
     role : {NoRole}, profileOk : {TRUE}]

RaceLoginInputs == [email : RaceEmails, password : {"Abcdef1"}]

NextRace ==
    \/ \E s \in Slots, in \in RaceRegInputs : RegisterStart(s, in)
    \/ \E s \in Slots : RegisterLookup(s)
    \/ \E s \in Slots : RegisterCreate(s)
    \/ \E s \in Slots, in \in RaceLoginInputs : LoginStart(s, in)
    \/ \E s \in Slots : LoginLookup(s)
    \/ \E s \in Slots : LoginCompare(s)
    \/ \E id \in Ids : Deactivate(id)

SpecRace == InitRace /\ [][NextRace]_vars

\* Registrations with every date of birth, on every date of the clock.
AgeInputs ==
    [email : OneEmail, password : {"Abcdef1"},
     dob : BirthDates \cup {BadDate}, role : {NoRole, "bogus"},
     profileOk : BOOLEAN]

NextAge ==
    \/ \E s \in Slots, in \in AgeInputs : RegisterStart(s, in)
    \/ \E s \in Slots : RegisterLookup(s)
    \/ \E s \in Slots : RegisterCreate(s)
    \/ \E id \in Ids : DeleteUser(id)
    \/ Tick

SpecAge == Init /\ [][NextAge]_vars

\* Users of every role, and a protected route with authorize(...roles)
\* behind protect, for every set of roles.
RoleEmails == {e \in Emails : ~e.upper /\ ~e.dots}

RoleRegInputs ==
    [email : RoleEmails, password : {"Abcdef1"}, dob : {Adult},
     role : {NoRole, "agent", "admin", "bogus"}, profileOk : {TRUE}]

NextRole ==
    \/ \E s \in Slots, in \in RoleRegInputs : RegisterStart(s, in)
    \/ \E s \in Slots : RegisterLookup(s)
    \/ \E s \in Slots : RegisterCreate(s)
    \/ \E s \in Slots, tok \in Headers : ProtectStart(s, tok)
    \/ \E s \in Slots : ProtectLookup(s)
    \/ \E s \in Slots, roles \in SUBSET Roles : Authorize(s, roles)
    \/ \E id \in Ids : DeleteUser(id)

SpecRole == Init /\ [][NextRole]_vars

\* =================================================================== claims
Done(r) == r.pc = "done"

\* ------------------------------------------------------------------- C1
\* C1: a request that enters protect after the user of its token was
\* deactivated, with a token signed with the current key and unexpired,
\* never has next() called nor req.user set, and, its store read returning,
\* is answered 401.
C1_DeactivatedIsRejected ==
    \A s \in Slots :
        LET r == reqs[s]
        IN (r.kind = "protect" /\ r.tok.sig = "good" /\ r.vt < r.tok.exp
              /\ r.deactAtEntry)
           => /\ ~r.nextCalled
              /\ r.reqUser = NoId
              /\ r.pc \in {"lookup", "done"}
              /\ (Done(r) /\ ~r.fault => r.mwStatus = 401 /\ r.status = 0)

C1_Witness ==
    \E s \in Slots :
        LET r == reqs[s]
        IN /\ r.kind = "protect" /\ Done(r) /\ r.tok \in issued
           /\ r.vt < r.tok.exp /\ r.deactAtEntry
           /\ r.mwStatus = 401 /\ r.mwMsg = MsgDeactivated

\* ------------------------------------------------------------------- C5
\* the first failing step of protect, in the order the claim gives
C5_Outcome(r) ==
    IF r.tok.sig = "none" THEN <<401, MsgNoToken>>
    ELSE IF r.tok.sig \in {"malformed", "bad"} THEN <<401, MsgInvalidToken>>
    ELSE IF r.vt >= r.tok.exp THEN <<401, MsgExpired>>
    ELSE IF r.fault THEN <<500, MsgAuthError>>
    ELSE IF ~r.existed THEN <<401, MsgUserNotFound>>
    ELSE IF ~r.activeAt THEN <<401, MsgDeactivated>>
    ELSE <<0, MsgNone>>

\* C5: protect answers with the response of the first failing step (no
\* token, invalid token, expired, user not found, deactivated, in this
\* order); a failing store read gives 500 and none of the 401 responses;
\* next() is called and req.user set exactly when no step fails; a request
\* gets a response of protect or a call of next(), never both, never none.
C5_ProtectOutcome ==
    \A s \in Slots :
        LET r == reqs[s]
        IN /\ (r.kind = "protect" /\ r.pc \in {"handler", "done"})
              => /\ <<r.mwStatus, r.mwMsg>> = C5_Outcome(r)
                 /\ r.nextCalled <=> (r.mwStatus = 0)
                 /\ r.nextCalled <=> (r.reqUser # NoId)
                 /\ r.nextCalled => r.reqUser = r.tok.id
                 /\ r.fault => r.mwStatus = 500
           /\ (r.kind = "protect" /\ r.pc = "lookup")
              => r.mwStatus = 0 /\ ~r.nextCalled /\ r.reqUser = NoId

C5_Witness ==
    \E s \in Slots :
        LET r == reqs[s]
        IN /\ r.kind = "protect" /\ Done(r) /\ r.tok \in issued
           /\ r.looked /\ ~r.existed
           /\ r.mwStatus = 401 /\ r.mwMsg = MsgUserNotFound

\* ------------------------------------------------------------------- C6
\* C6: every issued token expires TTL after its issue time; presented for
\* an existing active user at a time before issue time plus TTL it is
\* accepted (next() is called with its user), and presented at a time after
\* issue time plus TTL it is answered 401 'Token expired, please login
\* again'.
C6_TokenLifetime ==
    /\ \A tok \in issued : tok.sig = "good" /\ tok.exp = tok.iat + TTL
    /\ \A s \in Slots :
          LET r == reqs[s]
          IN (r.kind = "protect" /\ r.tok.sig = "good"
                /\ r.pc \in {"handler", "done"})
             => /\ (r.vt < r.tok.iat + TTL /\ r.looked /\ r.existed
                      /\ r.activeAt)
                   => r.nextCalled /\ r.reqUser = r.tok.id /\ r.mwStatus = 0
                /\ (r.vt > r.tok.iat + TTL)
                   => /\ r.mwStatus = 401 /\ r.mwMsg = MsgExpired
                      /\ ~r.nextCalled

C6_Witness ==
    \E s \in Slots :
        LET r == reqs[s]
        IN /\ r.kind = "protect" /\ Done(r) /\ r.tok \in issued
           /\ r.vt > r.tok.iat + TTL
           /\ users[r.tok.id].present /\ users[r.tok.id].isActive
           /\ r.mwMsg = MsgExpired

\* ------------------------------------------------------------------- C2
\* C2: a register request that passed validation and whose normalized email
\* is the email of a user in the store when the handler looks it up is
\* answered 400 'User already exists with this email', creates no record
\* and gets no token.
C2_DuplicateIsConflict ==
    \A s \in Slots :
        LET r == reqs[s]
        IN (r.kind = "register" /\ r.looked /\ r.existed)
           => /\ Done(r)
              /\ r.status = 400 /\ r.msg = MsgExists
              /\ r.created = NoId /\ r.userId = NoId
              /\ r.token = NoToken

\* the stored user was registered in lower case, this request in upper case
C2_Witness ==
    \E s \in Slots :
        LET r == reqs[s]
        IN /\ r.kind = "register" /\ Done(r) /\ r.looked /\ r.existed
           /\ r.raw.upper
           /\ \E i \in Ids : /\ users[i].present
                             /\ ~users[i].regRaw.upper
                             /\ users[i].regRaw = [r.raw EXCEPT !.upper = FALSE]
           /\ r.status = 400 /\ r.msg = MsgExists

\* ------------------------------------------------------------------- C4
\* C4 as claimed: a login carrying the email string and the password of an
\* accepted registration, the user not changed since (present, active,
\* digest as registration stored it), is answered 200 with a token for the
\* registered user's id.
C4_LoginAfterRegister ==
    \A s \in Slots :
        LET r == reqs[s]
        IN (r.kind = "login" /\ Done(r) /\ ~r.fault)
           => \A i \in Ids :
                (/\ users[i].present
                 /\ users[i].regRaw = r.raw
                 /\ users[i].isActive
                 /\ users[i].password = BcryptHash(Plain(r.password)))
                => /\ r.status = 200
                   /\ r.token.sig = "good" /\ r.token.id = i

\* ------------------------------------------------------------------- C7
\* C7 as claimed: a login whose password does not match gets the same
\* response, 401 'Invalid email or password', whether or not a user with
\* the submitted email exists.
C7_LoginHidesExistence ==
    \A s \in Slots :
        LET r == reqs[s]
        IN (r.kind = "login" /\ Done(r) /\ r.looked /\ ~r.fault /\ ~r.pwMatch)
           => r.status = 401 /\ r.msg = MsgBadLogin /\ r.token = NoToken

\* C7 amended: a login whose password does not match gets the same
\* response, 401 'Invalid email or password', whether no user has the
\* submitted email or an active user has it.
C7_LoginHidesActiveExistence ==
    \A s \in Slots :
        LET r == reqs[s]
        IN (r.kind = "login" /\ Done(r) /\ r.looked /\ ~r.fault /\ ~r.pwMatch
              /\ (r.existed => r.activeAt))
           => r.status = 401 /\ r.msg = MsgBadLogin /\ r.token = NoToken

C7_Witness ==
    \E s \in Slots :
        LET r == reqs[s]
        IN /\ r.kind = "login" /\ Done(r) /\ r.looked /\ ~r.fault
           /\ r.existed /\ r.activeAt /\ ~r.pwMatch /\ r.compared
           /\ r.status = 401 /\ r.msg = MsgBadLogin

\* ------------------------------------------------------------------- C8
\* C8: a login whose lookup finds a user with isActive false is answered
\* 401 with the account-deactivated message and no token, whether or not
\* the password is the user's, and comparePassword is not called for it.
C8_InactiveLoginRefused ==
    \A s \in Slots :
        LET r == reqs[s]
        IN (r.kind = "login" /\ r.looked /\ r.existed /\ ~r.activeAt)
           => /\ Done(r)
              /\ r.status = 401 /\ r.msg = MsgLoginOff
              /\ r.token = NoToken /\ r.userId = NoId
              /\ ~r.compared

C8_Witness ==
    \E s \in Slots :
        LET r == reqs[s]
        IN /\ r.kind = "login" /\ Done(r) /\ r.looked /\ r.existed
           /\ ~r.activeAt /\ r.pwMatch
           /\ r.status = 401 /\ r.msg = MsgLoginOff

\* ------------------------------------------------------------------- C9
\* C9 as claimed: the stored digest is the one hash of the password the
\* user registered with, whatever saves of the record with an unmodified
\* password field have happened, so that comparePassword with that
\* password returns true.
C9_DigestHashedOnce ==
    \A i \in Ids :
        users[i].present
        => /\ users[i].password = BcryptHash(Plain(users[i].password.plain))
           /\ comparePassword(users[i].password, users[i].password.plain)

\* ------------------------------------------------------------------- C3
\* C3: whatever the interleaving of register requests with one email, no
\* two records of the store have the same email; of two such requests at
\* most one is answered 201, with a token for the record it created, and a
\* request that is not is answered 400 or 500 and has created nothing.
C3_EmailUnique ==
    /\ \A i, j \in Ids :
          (users[i].present /\ users[j].present /\ users[i].email = users[j].email)
          => i = j
    /\ \A s, t \in Slots :
          (/\ s # t
           /\ reqs[s].kind = "register" /\ reqs[t].kind = "register"
           /\ reqs[s].email = reqs[t].email
           /\ reqs[s].status = 201)
          => reqs[t].status # 201
    /\ \A s \in Slots :
          LET r == reqs[s]
          IN (r.kind = "register" /\ Done(r))
             => IF r.status = 201
                THEN /\ r.created \in Ids /\ r.token = generateToken(r.created, r.token.iat)
                     /\ users[r.created].email = r.email
                ELSE r.status \in {400, 500} /\ r.created = NoId
                     /\ r.token = NoToken

\* both requests found no user with the email; one created the record, the
\* other ran into the index
C3_Witness ==
    \E s, t \in Slots :
        /\ s # t
        /\ reqs[s].kind = "register" /\ Done(reqs[s]) /\ reqs[s].status = 201
        /\ reqs[t].kind = "register" /\ Done(reqs[t]) /\ reqs[t].status = 500
        /\ reqs[t].looked /\ ~reqs[t].existed /\ ~reqs[t].fault
        /\ reqs[s].email = reqs[t].email

\* ------------------------------------------------------------------ C10
\* the age in whole years of a person born on dob, on the date today
AgeOn(dob, today) ==
    (today.y - dob.y) - (IF today.d < dob.d THEN 1 ELSE 0)

\* C10 as claimed: register reports the date of birth in its validation
\* errors (400) when it implies an age below 18 on the day of the call, and
\* does not report it when it implies an age of 18 or more.
C10_AgeRule ==
    \A s \in Slots :
        LET r == reqs[s]
        IN (r.kind = "register" /\ r.dob.valid)
           => IF AgeOn(r.dob, r.today) < MinAge
              THEN Done(r) /\ r.status = 400 /\ "dateOfBirth" \in r.errors
              ELSE "dateOfBirth" \notin r.errors

\* ------------------------------------------------------------------ C11
\* C11: for every set of roles bound by authorize and every attached
\* identity with a role among customer, agent and admin, authorize calls
\* next() and sends nothing when the role is in the set, and otherwise
\* answers 403 with a message that names the role and does not call next().
C11_AuthorizeByRole ==
    \A s \in Slots :
        LET r == reqs[s]
        IN /\ (r.azDone /\ r.reqRole \in {"customer", "agent", "admin"})
              => IF r.reqRole \in r.azRoles
                 THEN r.azNext /\ r.azStatus = 0 /\ r.azMsg = <<>>
                 ELSE /\ ~r.azNext
                      /\ r.azStatus = 403
                      /\ r.azMsg = <<"User role '", r.reqRole,
                                     "' is not authorized to access this route">>
           /\ r.azDone => /\ r.nextCalled /\ r.reqUser # NoId
                          /\ r.reqRole \in {"customer", "agent", "admin"}
                          /\ r.azNext <=> (r.azStatus = 0)

\* authorize('admin') refuses a customer
C11_Witness ==
    \E s \in Slots :
        LET r == reqs[s]
        IN /\ r.azDone /\ r.azRoles = {"admin"} /\ r.reqRole = "customer"
           /\ r.azStatus = 403 /\ ~r.azNext

\* authorize('agent', 'admin') lets an admin through
C11_Accepted ==
    \E s \in Slots :
        LET r == reqs[s]
        IN /\ r.azDone /\ r.azRoles = {"agent", "admin"} /\ r.reqRole = "admin"
           /\ r.azStatus = 0 /\ r.azNext

\* ------------------------------------------------------------------ C12
\* what a request whose validation failed shows when it is answered
C12_Untouched(r) ==
    /\ Done(r)
    /\ r.status = 400 /\ r.msg = MsgNone
    /\ ~r.looked /\ ~r.existed /\ ~r.fault /\ r.uid = NoId
    /\ r.created = NoId /\ ~r.compared /\ r.snap = NoDigest
    /\ r.token = NoToken /\ r.userId = NoId

\* C12: a register or login request that fails validation is answered 400
\* with no lookup, insert, hash or token issuance made for it, and the step
\* that answers it leaves the user records, the id counter and the issued
\* tokens as they were.
C12_ValidationFirst ==
    /\ [](\A s \in Slots :
            (reqs[s].kind \in {"register", "login"} /\ reqs[s].errors # {})
            => C12_Untouched(reqs[s]))
    /\ [][\A s \in Slots :
            (reqs'[s] # reqs[s] /\ reqs'[s].kind \in {"register", "login"}
               /\ reqs'[s].errors # {})
            => (users' = users /\ nextId' = nextId /\ issued' = issued)]_vars

\* a registration refused for its password while the store holds a user
C12_Witness ==
    \E s \in Slots :
        LET r == reqs[s]
        IN /\ r.kind = "register" /\ Done(r) /\ "password" \in r.errors
           /\ r.raw.valid /\ r.status = 400
           /\ \E i \in Ids : users[i].present /\ users[i].email = r.email
====
